---- MODULE Spec2Model ----
(***************************************************************************)
(* A model of wk (src/src/main.rs): the configuration document and its    *)
(* load/save, the restic command line built from it, and the adoption of  *)
(* a file into the secretz pack directory.                                 *)
(*                                                                         *)
(* A path is a record [abs, comps]: whether it starts at the root, and its *)
(* components.  The filesystem is a function from the resolved absolute    *)
(* location of every existing entry to its node.  A process runs one CLI   *)
(* command; Exit ends it and the next command starts from the filesystem   *)
(* and documents the previous one left.                                    *)
(***************************************************************************)
EXTENDS Integers, Sequences, FiniteSets, TLC

VARIABLES fs, docs, homeAvail, pc, op, path, force, remote_storage,
          cfgpath, loaded, relpath, result, invocation

vars == <<fs, docs, homeAvail, pc, op, path, force, remote_storage,
          cfgpath, loaded, relpath, result, invocation>>

(***************************************************************************)
(* Bounds of the model.                                                    *)
(***************************************************************************)
\* number of bytes in every regular file of the initial filesystem
DataLen == 2
\* longest list of exclude patterns in a configuration document
MaxExcludes == 2
\* longest list of backup targets in a configuration document
MaxTargets == 2

(***************************************************************************)
(* Options and paths.                                                      *)
(***************************************************************************)
Some(v) == [some |-> TRUE, val |-> v]

AbsPath(comps) == [abs |-> TRUE, comps |-> comps]

RelPath(comps) == [abs |-> FALSE, comps |-> comps]

NonePath == [some |-> FALSE, val |-> RelPath(<<>>)]

NoneString == [some |-> FALSE, val |-> ""]

Front(s) == SubSeq(s, 1, Len(s) - 1)

\* whoami::username()
Username == "u"

\* directories::BaseDirs::home_dir()
Home == AbsPath(<<"home", "u">>)

\* the working directory of the process, against which the operating
\* system resolves a relative path argument
Cwd == Home

\* PathBuf::join: an absolute argument replaces the receiver
join(a, b) == IF b.abs THEN b ELSE [abs |-> a.abs, comps |-> a.comps \o b.comps]

\* a parent that takes a path of one component to have none
parent_of_nested_only(p) ==
    IF Len(p.comps) <= 1 THEN NonePath ELSE Some([abs |-> p.abs, comps |-> Front(p.comps)])

\* Path::parent: None for the root and for the empty path; the parent of a
\* relative path of one component is the empty path
parent(p) == IF p.comps = <<>> THEN NonePath ELSE Some([abs |-> p.abs, comps |-> Front(p.comps)])

RECURSIVE diff_loop(_, _, _)
\* the component loop of pathdiff::diff_paths
diff_loop(a, b, comps) ==
    IF a = <<>> /\ b = <<>> THEN [some |-> TRUE, val |-> comps]
    ELSE IF b = <<>> THEN [some |-> TRUE, val |-> comps \o a]
    ELSE IF a = <<>> THEN diff_loop(a, Tail(b), Append(comps, ".."))
    ELSE IF comps = <<>> /\ Head(a) = Head(b) THEN diff_loop(Tail(a), Tail(b), comps)
    ELSE IF Head(b) = "." THEN diff_loop(Tail(a), Tail(b), Append(comps, Head(a)))
    ELSE IF Head(b) = ".." THEN [some |-> FALSE, val |-> <<>>]
    ELSE [some |-> TRUE,
          val |-> Append(comps, "..") \o [i \in 1..Len(Tail(b)) |-> ".."] \o a]

\* pathdiff::diff_paths(path, base): the path that leads from base to path,
\* climbing with ".." where path is not below base
diff_paths(p, base) ==
    IF p.abs # base.abs
    THEN (IF p.abs THEN Some(p) ELSE NonePath)
    ELSE LET r == diff_loop(p.comps, base.comps, <<>>)
         IN  IF r.some THEN Some(RelPath(r.val)) ELSE NonePath

(***************************************************************************)
(* The filesystem.                                                         *)
(***************************************************************************)
Dir == [kind |-> "dir", data |-> <<>>]

File(d) == [kind |-> "file", data |-> d]

Link(target) == [kind |-> "symlink", data |-> target]

RECURSIVE Norm(_, _)
\* resolution of ".." components, each against the directory reached so far
Norm(acc, rest) ==
    IF rest = <<>> THEN acc
    ELSE IF Head(rest) = ".."
         THEN Norm(IF acc = <<>> THEN <<>> ELSE Front(acc), Tail(rest))
         ELSE Norm(Append(acc, Head(rest)), Tail(rest))

AbsComps(p) == IF p.abs THEN p.comps ELSE Cwd.comps \o p.comps

\* the location a path names, the final component not followed.  The
\* directories on the way are directories, not symlinks, and every file has
\* one name, so two paths name the same file only when their locations are
\* equal.
Key(p) == Norm(<<>>, AbsComps(p))

\* the location a path names, a final symlink followed
Follow(f, k) == IF k \in DOMAIN f /\ f[k].kind = "symlink" THEN f[k].data ELSE k

\* a directory test that never answers yes
is_dir_never(f, p) == FALSE

\* Path::is_dir: follows a symlink, false for a missing entry
is_dir(f, p) ==
    LET k == Follow(f, Key(p)) IN k \in DOMAIN f /\ f[k].kind = "dir"

\* fs::metadata in place of fs::symlink_metadata: the link's target is examined
metadata_following(f, p) ==
    LET k == Follow(f, Key(p))
    IN  IF k \in DOMAIN f THEN [ok |-> TRUE, kind |-> f[k].kind]
        ELSE [ok |-> FALSE, kind |-> "none"]

\* fs::symlink_metadata(..)?.file_type(): the entry itself, an error when
\* there is none
symlink_metadata(f, p) ==
    LET k == Key(p)
    IN  IF k \in DOMAIN f THEN [ok |-> TRUE, kind |-> f[k].kind]
        ELSE [ok |-> FALSE, kind |-> "none"]

RECURSIVE mkdir_walk(_, _, _, _)
\* the directories of comps from the root down; budget is the number of
\* mkdir calls that succeed before one fails
mkdir_walk(f, comps, i, budget) ==
    IF i > Len(comps) THEN [ok |-> TRUE, fs |-> f]
    ELSE LET k == Norm(<<>>, SubSeq(comps, 1, i))
             t == Follow(f, k)
         IN  IF k \in DOMAIN f
             THEN IF t \in DOMAIN f /\ f[t].kind = "dir"
                  THEN mkdir_walk(f, comps, i + 1, budget)
                  ELSE [ok |-> FALSE, fs |-> f]
             ELSE IF budget = 0
                  THEN [ok |-> FALSE, fs |-> f]
                  ELSE mkdir_walk(f @@ (k :> Dir), comps, i + 1, budget - 1)

\* fs::create_dir_all: every missing directory on the way is created, the
\* ones made before a failure stay
create_dir_all(f, p, budget) == mkdir_walk(f, AbsComps(p), 1, budget)

WriteFile(f, k, d) == [q \in DOMAIN f \cup {k} |-> IF q = k THEN File(d) ELSE f[q]]

\* fs::copy(from, to): the results the call can have.  The destination is
\* created or truncated, then the bytes are written; a failure leaves the
\* destination untouched (open failed) or with a strict prefix of the bytes.
\* When from and to name the same file the truncation empties it.
copy(f, from, to) ==
    LET src == Follow(f, Key(from))
        dst == Follow(f, Key(to))
        dstdir == Follow(f, Front(dst))
    IN  IF src \notin DOMAIN f \/ f[src].kind # "file"
        THEN {[ok |-> FALSE, fs |-> f]}
        ELSE IF dst = <<>> \/ (dst \in DOMAIN f /\ f[dst].kind # "file")
                \/ dstdir \notin DOMAIN f \/ f[dstdir].kind # "dir"
        THEN {[ok |-> FALSE, fs |-> f]}
        ELSE IF src = dst
        THEN {[ok |-> FALSE, fs |-> f], [ok |-> TRUE, fs |-> WriteFile(f, dst, <<>>)]}
        ELSE {[ok |-> FALSE, fs |-> f]}
             \cup {[ok |-> FALSE, fs |-> WriteFile(f, dst, SubSeq(f[src].data, 1, n))] :
                       n \in 0..(Len(f[src].data) - 1)}
             \cup {[ok |-> TRUE, fs |-> WriteFile(f, dst, f[src].data)]}

\* fs::remove_file(path): unlinks the entry itself; fails on a missing entry
\* or a directory, or when the operating system refuses (fail)
remove_file(f, p, fail) ==
    LET k == Key(p)
    IN  IF fail \/ k \notin DOMAIN f \/ f[k].kind = "dir"
        THEN [ok |-> FALSE, fs |-> f]
        ELSE [ok |-> TRUE, fs |-> [q \in DOMAIN f \ {k} |-> f[q]]]

(***************************************************************************)
(* The configuration model.                                                *)
(***************************************************************************)
\* Repository::Local(LocalPath {path})
Local(p) == [type |-> "local", path |-> p]

\* Repository::S3(S3Info {..})
S3(bucket, endpoint, access_key_id, secret_access_key, region) ==
    [type |-> "s3", bucket |-> bucket, endpoint |-> endpoint,
     access_key_id |-> access_key_id, secret_access_key |-> secret_access_key,
     region |-> region]

\* impl Default for S3Info
S3Info_default ==
    S3("my_bucket", Some("https://my-s3-endpoint.net"), "access_key_id",
       "secret_access_key", "us-east-1")

MkConfig(secretz_path, excludes, targets, repository) ==
    [secretz |-> [path |-> secretz_path],
     backup |-> [password |-> "very_secure_password", excludes |-> excludes,
                 targets |-> targets, repository |-> repository]]

\* impl Default for Config
Config_default ==
    MkConfig(AbsPath(<<"mnt", "secretz">>), <<"target">>,
             <<"/mnt/codez", "/mnt/secretz">>,
             Local(AbsPath(<<"mnt", "backupz", "wk">>)))

RECURSIVE JoinComps(_)
JoinComps(comps) ==
    IF comps = <<>> THEN ""
    ELSE IF Len(comps) = 1 THEN Head(comps)
    ELSE Head(comps) \o "/" \o JoinComps(Tail(comps))

\* Path::display().to_string()
display(p) == (IF p.abs THEN "/" ELSE "") \o JoinComps(p.comps)

\* Option::unwrap_or
unwrap_or(o, d) == IF o.some THEN o.val ELSE d

\* a url without the fallback endpoint
S3Info_url_no_fallback(s3) == "s3:" \o s3.endpoint.val \o "/" \o s3.bucket

\* S3Info::url
S3Info_url(s3) == "s3:" \o unwrap_or(s3.endpoint, "s3.amazonaws.com") \o "/" \o s3.bucket

\* Repository::path
Repository_path(repository) ==
    IF repository.type = "local" THEN display(repository.path)
    ELSE S3Info_url(repository)

(***************************************************************************)
(* The persisted document.  Its text is a TOML encoding of a configuration,*)
(* or text that does not decode to one (garbage, or the empty text a       *)
(* failed write leaves).                                                   *)
(***************************************************************************)
\* toml::to_string(&config)
to_string(cfg) == [kind |-> "toml", cfg |-> cfg]

Garbage == [kind |-> "garbage", cfg |-> Config_default]

EmptyText == [kind |-> "empty", cfg |-> Config_default]

\* toml::from_str(&toml)
from_str(text) ==
    IF text.kind = "toml" THEN [ok |-> TRUE, cfg |-> text.cfg]
    ELSE [ok |-> FALSE, cfg |-> Config_default]

Absent == [exists |-> FALSE, text |-> EmptyText]

Present(text) == [exists |-> TRUE, text |-> text]

\* a load that falls back to the default on a decode error as well
load_from_path_lenient(d, p) ==
    IF d[p].exists /\ from_str(d[p].text).ok THEN from_str(d[p].text)
    ELSE [ok |-> TRUE, cfg |-> Config_default]

\* Config::load_from_path: a document that cannot be opened gives the
\* default; one that is read gives what it decodes to, or the decode error
load_from_path(d, p) ==
    IF d[p].exists THEN from_str(d[p].text)
    ELSE [ok |-> TRUE, cfg |-> Config_default]

\* Config::default_config_path
default_config_path == "default"

\* Config::load
load(d) == load_from_path(d, default_config_path)

\* Config::save: File::create truncates the document, write_all fills it
save(d, cfg, outcome) ==
    IF outcome = "create_failed" THEN [ok |-> FALSE, docs |-> d]
    ELSE IF outcome = "write_failed"
    THEN [ok |-> FALSE, docs |-> [d EXCEPT ![default_config_path] = Present(EmptyText)]]
    ELSE [ok |-> TRUE, docs |-> [d EXCEPT ![default_config_path] = Present(to_string(cfg))]]

SaveOutcomes == {"ok", "create_failed", "write_failed"}

(***************************************************************************)
(* The command synthesizer.                                                *)
(***************************************************************************)
NoInvocation == [some |-> FALSE, program |-> "", args |-> <<>>, env |-> <<>>]

\* restic(backup, main_cmd, extra_args)
restic(backup, main_cmd, extra_args) ==
    [some |-> TRUE,
     program |-> "restic",
     args |-> <<main_cmd>> \o extra_args,
     env |-> IF backup.repository.type = "s3"
             THEN ("RESTIC_REPOSITORY" :> Repository_path(backup.repository))
                  @@ ("RESTIC_PASSWORD" :> backup.password)
                  @@ ("AWS_DEFAULT_REGION" :> backup.repository.region)
                  @@ ("AWS_ACCESS_KEY_ID" :> backup.repository.access_key_id)
                  @@ ("AWS_SECRET_ACCESS_KEY" :> backup.repository.secret_access_key)
             ELSE ("RESTIC_REPOSITORY" :> Repository_path(backup.repository))
                  @@ ("RESTIC_PASSWORD" :> backup.password)]

RECURSIVE push_excludes(_, _)
\* for exclude in &config.backup.excludes { extra_args.push(..) }
push_excludes(extra_args, excludes) ==
    IF excludes = <<>> THEN extra_args
    ELSE push_excludes(Append(extra_args, "--exclude=" \o Head(excludes)), Tail(excludes))

RECURSIVE push_targets(_, _)
\* for target in &config.backup.targets { extra_args.push(..) }
push_targets(extra_args, targets) ==
    IF targets = <<>> THEN extra_args
    ELSE push_targets(Append(extra_args, Head(targets)), Tail(targets))

\* the two loops of Run in the other order
run_extra_args_targets_first(backup) ==
    push_excludes(push_targets(<<>>, backup.targets), backup.excludes)

\* the extra_args of BackupSubcommands::Run
run_extra_args(backup) == push_targets(push_excludes(<<>>, backup.excludes), backup.targets)

\* the extra_args of BackupSubcommands::Restore
restore_extra_args(host, target, snapshot_id) == <<"-H", host, "--target", target, snapshot_id>>

(***************************************************************************)
(* The secret adoption engine.                                             *)
(***************************************************************************)
\* Secretz::pack_dir
pack_dir(self) == join(join(self.path, RelPath(<<Username>>)), RelPath(<<"pack">>))

\* Secretz::adopt up to its first filesystem mutation: the error it returns,
\* "noop" when it returns Ok(()) without entering the innermost block, or
\* "proceed"
adopt_checks(f, self, p, home_available) ==
    IF is_dir(f, p) THEN "err_is_dir"
    ELSE IF ~symlink_metadata(f, p).ok THEN "err_io"
    ELSE IF symlink_metadata(f, p).kind = "symlink" THEN "err_is_symlink"
    ELSE IF ~home_available THEN "noop"
    ELSE IF ~diff_paths(p, Home).some THEN "noop"
    ELSE IF ~parent(diff_paths(p, Home).val).some THEN "noop"
    ELSE "proceed"

\* let target_dir = self.pack_dir().join(&parent)
target_dir(self, rel) == join(pack_dir(self), parent(rel).val)

\* a copy target that keeps the file name only
copy_target_flat(self, rel) ==
    join(pack_dir(self), RelPath(<<rel.comps[Len(rel.comps)]>>))

\* &self.pack_dir().join(&relpath)
copy_target(self, rel) == join(pack_dir(self), rel)

(***************************************************************************)
(* Initial states.                                                         *)
(***************************************************************************)
FileData(tag) == [i \in 1..DataLen |-> tag \o "#" \o ToString(i)]

SecretFile == AbsPath(<<"home", "u", "a", "b", "secret.txt">>)

TopFile == AbsPath(<<"home", "u", "top.txt">>)

OutsideFile == AbsPath(<<"etc", "x", "f">>)

SubDir == AbsPath(<<"home", "u", "a", "b">>)

LinkToFile == AbsPath(<<"home", "u", "a", "lf">>)

LinkToDir == AbsPath(<<"home", "u", "a", "ld">>)

LinkDangling == AbsPath(<<"home", "u", "a", "lx">>)

MissingFile == AbsPath(<<"home", "u", "a", "missing">>)

RelativeFile == RelPath(<<"a", "b", "secret.txt">>)

\* the file arguments of `wk adopt <file>`
AdoptArgs ==
    {SecretFile, TopFile, OutsideFile, SubDir, LinkToFile, LinkToDir,
     LinkDangling, MissingFile, RelativeFile}

\* the bytes of the regular files of the initial filesystem
InitialData ==
    (Key(SecretFile) :> FileData("secret")) @@ (Key(TopFile) :> FileData("top"))
    @@ (Key(OutsideFile) :> FileData("ext"))

DirsAt(keys) == [k \in keys |-> Dir]

Prefixes(comps) == {SubSeq(comps, 1, i) : i \in 0..Len(comps)}

BaseFs ==
    DirsAt(Prefixes(Key(SubDir)) \cup Prefixes(<<"etc", "x">>))
    @@ [k \in DOMAIN InitialData |-> File(InitialData[k])]
    @@ (Key(LinkToFile) :> Link(Key(SecretFile)))
    @@ (Key(LinkToDir) :> Link(Key(SubDir)))
    @@ (Key(LinkDangling) :> Link(Key(MissingFile)))

DefaultPack == Key(pack_dir(Config_default.secretz))

\* the filesystems a command can start from: nothing adopted yet; an older
\* copy of the secret already in the pack directory; a regular file where
\* the per-user directory should be; a directory where the copy should go
InitialFilesystems ==
    { BaseFs,
      BaseFs @@ DirsAt(Prefixes(DefaultPack \o <<"a", "b">>))
             @@ ((DefaultPack \o <<"a", "b", "secret.txt">>) :> File(<<"old">>)),
      BaseFs @@ DirsAt(Prefixes(<<"mnt", "secretz">>))
             @@ (<<"mnt", "secretz", Username>> :> File(<<"old">>)),
      BaseFs @@ DirsAt(Prefixes(DefaultPack \o <<"a", "b", "secret.txt">>)) }

\* a configuration a user has edited: another secrets root, an S3 repository
\* on the default endpoint
CustomConfig ==
    MkConfig(AbsPath(<<"srv">>), <<"*.o", "target">>, <<"/mnt/codez">>,
             S3("foo", NoneString, "baz", "bar", "us-east-1"))

DocPaths == {"default", "alt"}

NoConfig == [ok |-> FALSE, cfg |-> Config_default]

InitLocals ==
    /\ pc = "idle"
    /\ op = "none"
    /\ path = RelPath(<<>>)
    /\ force = FALSE
    /\ remote_storage = FALSE
    /\ cfgpath = default_config_path
    /\ loaded = NoConfig
    /\ relpath = RelPath(<<>>)
    /\ result = "none"
    /\ invocation = NoInvocation

Init ==
    /\ fs \in InitialFilesystems
    /\ docs \in {[p \in DocPaths |-> IF p = default_config_path THEN d ELSE Absent] :
                    d \in {Absent, Present(Garbage), Present(to_string(Config_default)),
                           Present(to_string(CustomConfig))}}
    /\ homeAvail \in BOOLEAN
    /\ InitLocals

(***************************************************************************)
(* wk adopt <file>                                                         *)
(***************************************************************************)
\* Cli::Adopt: Config::load()?, then Secretz::adopt as far as its checks
MainAdopt ==
    /\ pc = "idle"
    /\ \E file \in AdoptArgs :
         LET l == load(docs)
             v == adopt_checks(fs, l.cfg.secretz, file, homeAvail)
         IN  /\ op' = "adopt"
             /\ path' = file
             /\ cfgpath' = default_config_path
             /\ loaded' = l
             /\ IF ~l.ok
                THEN result' = "err_config" /\ pc' = "done" /\ relpath' = relpath
                ELSE IF v = "proceed"
                THEN /\ result' = "none"
                     /\ pc' = "create_dir_all"
                     /\ relpath' = diff_paths(file, Home).val
                ELSE /\ result' = (IF v = "noop" THEN "ok" ELSE v)
                     /\ pc' = "done"
                     /\ relpath' = relpath
    /\ UNCHANGED <<fs, docs, homeAvail, force, remote_storage, invocation>>

\* fs::create_dir_all(&target_dir)?
AdoptCreateDirAll ==
    /\ pc = "create_dir_all"
    /\ \E budget \in 0..Len(AbsComps(target_dir(loaded.cfg.secretz, relpath))) :
         LET r == create_dir_all(fs, target_dir(loaded.cfg.secretz, relpath), budget)
         IN  /\ fs' = r.fs
             /\ pc' = (IF r.ok THEN "copy" ELSE "done")
             /\ result' = (IF r.ok THEN result ELSE "err_io")
    /\ UNCHANGED <<docs, homeAvail, op, path, force, remote_storage, cfgpath,
                   loaded, relpath, invocation>>

\* the copy without its `?`: the result is dropped and the delete follows
AdoptCopyUnchecked ==
    /\ pc = "copy"
    /\ \E r \in copy(fs, path, copy_target(loaded.cfg.secretz, relpath)) :
         fs' = r.fs
    /\ pc' = "remove_file"
    /\ UNCHANGED <<docs, homeAvail, op, path, force, remote_storage, cfgpath,
                   loaded, relpath, result, invocation>>

\* fs::copy(&path, &self.pack_dir().join(&relpath))?
AdoptCopy ==
    /\ pc = "copy"
    /\ \E r \in copy(fs, path, copy_target(loaded.cfg.secretz, relpath)) :
         /\ fs' = r.fs
         /\ pc' = (IF r.ok THEN "remove_file" ELSE "done")
         /\ result' = (IF r.ok THEN result ELSE "err_io")
    /\ UNCHANGED <<docs, homeAvail, op, path, force, remote_storage, cfgpath,
                   loaded, relpath, invocation>>

\* fs::remove_file(&path)? and the Ok(()) after it
AdoptRemoveFile ==
    /\ pc = "remove_file"
    /\ \E fail \in BOOLEAN :
         LET r == remove_file(fs, path, fail)
         IN  /\ fs' = r.fs
             /\ result' = (IF r.ok THEN "ok" ELSE "err_io")
    /\ pc' = "done"
    /\ UNCHANGED <<docs, homeAvail, op, path, force, remote_storage, cfgpath,
                   loaded, relpath, invocation>>

\* the process ends; the filesystem and the documents stay
Exit ==
    /\ pc = "done"
    /\ pc' = "idle"
    /\ op' = "none"
    /\ path' = RelPath(<<>>)
    /\ force' = FALSE
    /\ remote_storage' = FALSE
    /\ cfgpath' = default_config_path
    /\ loaded' = NoConfig
    /\ relpath' = RelPath(<<>>)
    /\ result' = "none"
    /\ invocation' = NoInvocation
    /\ UNCHANGED <<fs, docs, homeAvail>>

Next == MainAdopt \/ AdoptCreateDirAll \/ AdoptCopy \/ AdoptRemoveFile \/ Exit

Spec == Init /\ [][Next]_vars

(***************************************************************************)
(* wk config init, wk backup ...                                           *)
(***************************************************************************)
SeqsUpTo(S, n) == UNION {[1..k -> S] : k \in 0..n}

Patterns == {"target", "*.o"}

TargetPaths == {"/mnt/codez", "/mnt/secretz"}

Repositories ==
    {Config_default.backup.repository, Local(RelPath(<<"backupz">>))}
    \cup {S3(b, e, "baz", "bar", "us-east-1") :
              b \in {"my_bucket", "foo"},
              e \in {NoneString, Some("https://my-s3-endpoint.net"), Some("")}}

\* the configurations a document can hold
Configs ==
    {MkConfig(Config_default.secretz.path, ex, tg, r) :
         ex \in SeqsUpTo(Patterns, MaxExcludes),
         tg \in SeqsUpTo(TargetPaths, MaxTargets),
         r \in Repositories}

InitBackup ==
    /\ fs = BaseFs
    /\ \E d \in {Absent, Present(Garbage), Present(EmptyText)}
               \cup {Present(to_string(c)) : c \in Configs},
          a \in {Absent, Present(Garbage), Present(to_string(CustomConfig))} :
         docs = [p \in DocPaths |-> IF p = default_config_path THEN d ELSE a]
    /\ homeAvail = TRUE
    /\ InitLocals

\* a test that never refuses
init_refused_never(d, f) == FALSE

\* if path.exists() && !force { return Err(..) }
init_refused(d, f) == d[default_config_path].exists /\ ~f

\* Cli::Config, ConfigSubcommands::Init
ConfigInit ==
    /\ pc = "idle"
    /\ \E f \in BOOLEAN, r \in BOOLEAN, outcome \in SaveOutcomes :
         LET config == IF r THEN [Config_default EXCEPT !.backup.repository = S3Info_default]
                       ELSE Config_default
             s == save(docs, config, outcome)
         IN  /\ op' = "config_init"
             /\ force' = f
             /\ remote_storage' = r
             /\ IF init_refused(docs, f)
                THEN result' = "err_exists" /\ docs' = docs
                ELSE docs' = s.docs /\ result' = (IF s.ok THEN "ok" ELSE "err_io")
    /\ pc' = "done"
    /\ UNCHANGED <<fs, homeAvail, path, cfgpath, loaded, relpath, invocation>>

\* the restic expression is built from the loaded configuration and run; a
\* failed load ends the command before anything is built
Run(l, expression) ==
    IF l.ok
    THEN invocation' = expression /\ result' \in {"ok", "err_run"}
    ELSE invocation' = NoInvocation /\ result' = "err_config"

\* BackupSubcommands::Init
BackupInit ==
    /\ pc = "idle"
    /\ op' = "backup_init"
    /\ cfgpath' = default_config_path
    /\ loaded' = load(docs)
    /\ Run(load(docs), restic(load(docs).cfg.backup, "init", <<>>))
    /\ pc' = "done"
    /\ UNCHANGED <<fs, docs, homeAvail, path, force, remote_storage, relpath>>

\* BackupSubcommands::Run
BackupRun ==
    /\ pc = "idle"
    /\ op' = "backup_run"
    /\ cfgpath' = default_config_path
    /\ loaded' = load(docs)
    /\ Run(load(docs),
           restic(load(docs).cfg.backup, "backup", run_extra_args(load(docs).cfg.backup)))
    /\ pc' = "done"
    /\ UNCHANGED <<fs, docs, homeAvail, path, force, remote_storage, relpath>>

\* BackupSubcommands::Snapshots
BackupSnapshots ==
    /\ pc = "idle"
    /\ op' = "backup_snapshots"
    /\ cfgpath' = default_config_path
    /\ loaded' = load(docs)
    /\ Run(load(docs), restic(load(docs).cfg.backup, "snapshots", <<>>))
    /\ pc' = "done"
    /\ UNCHANGED <<fs, docs, homeAvail, path, force, remote_storage, relpath>>

\* BackupSubcommands::Restore
BackupRestore ==
    /\ pc = "idle"
    /\ \E host \in {"h"}, target \in {"/"}, snapshot_id \in {"latest", "4bba301e"},
          alternate_config \in {NoneString, Some("alt")} :
         LET l == IF alternate_config.some
                  THEN load_from_path(docs, alternate_config.val)
                  ELSE load(docs)
         IN  /\ op' = "backup_restore"
             /\ cfgpath' = (IF alternate_config.some THEN alternate_config.val
                            ELSE default_config_path)
             /\ loaded' = l
             /\ Run(l, restic(l.cfg.backup, "restore",
                              restore_extra_args(host, target, snapshot_id)))
    /\ pc' = "done"
    /\ UNCHANGED <<fs, docs, homeAvail, path, force, remote_storage, relpath>>

NextBackup ==
    ConfigInit \/ BackupInit \/ BackupRun \/ BackupSnapshots \/ BackupRestore \/ Exit

SpecBackup == InitBackup /\ [][NextBackup]_vars

(***************************************************************************)
(* Properties of adoption, checked under Spec.                             *)
(***************************************************************************)
\* the secrets roots of the documents of Init
SecretRoots == {Config_default.secretz, CustomConfig.secretz}

IsPrefixOf(a, b) == Len(a) <= Len(b) /\ SubSeq(b, 1, Len(a)) = a

\* the path p names a location below the home directory
UnderHome(p) == p.abs /\ IsPrefixOf(Home.comps, p.comps) /\ Len(p.comps) > Len(Home.comps)

\* the components of p after the home directory
RelToHome(p) == SubSeq(p.comps, Len(Home.comps) + 1, Len(p.comps))

\* the pack directory of the configuration the command loaded
LoadedPack == loaded.cfg.secretz.path.comps \o <<Username, "pack">>

\* a regular file is at the location p names
RegularAt(f, p) == Key(p) \in DOMAIN f /\ f[Key(p)].kind = "file"

\* p names a directory, directly or through a symlink
DirectoryAt(f, p) ==
    /\ Key(p) \in DOMAIN f
    /\ \/ f[Key(p)].kind = "dir"
       \/ /\ f[Key(p)].kind = "symlink"
          /\ f[Key(p)].data \in DOMAIN f
          /\ f[f[Key(p)].data].kind = "dir"

\* the entry p names is a symlink
SymlinkAt(f, p) == Key(p) \in DOMAIN f /\ f[Key(p)].kind = "symlink"

\* the step in which Secretz::adopt is entered with the argument path'
AdoptCalled == pc = "idle" /\ op' = "adopt" /\ loaded'.ok

\* C1: a call to adopt on a regular file <home>/<rel>, rel of two components
\* or more, that returns Ok has put the file's bytes at
\* <secrets root>/<username>/pack/<rel> and has left nothing at <home>/<rel>.
C1_AdoptedUnderPack ==
    (pc = "done" /\ op = "adopt" /\ result = "ok" /\ homeAvail
        /\ UnderHome(path) /\ Len(RelToHome(path)) >= 2)
    => /\ (LoadedPack \o RelToHome(path)) \in DOMAIN fs
       /\ fs[LoadedPack \o RelToHome(path)] = File(InitialData[Key(path)])
       /\ Key(path) \notin DOMAIN fs

C1_Witness ==
    /\ pc = "done" /\ op = "adopt" /\ result = "ok" /\ homeAvail
    /\ path = SecretFile
    /\ loaded.cfg = CustomConfig
    /\ Key(SecretFile) \notin DOMAIN fs
    /\ <<"srv", "u", "pack", "a", "b", "secret.txt">> \in DOMAIN fs
    /\ fs[<<"srv", "u", "pack", "a", "b", "secret.txt">>] = File(FileData("secret"))

\* C2: adopt called on a directory returns the "is a directory" error in
\* the step that enters it, with the filesystem as it was, and the command
\* is over.
C2_DirectoryRejected ==
    [][(AdoptCalled /\ DirectoryAt(fs, path'))
         => (result' = "err_is_dir" /\ pc' = "done" /\ fs' = fs)]_vars

C2_Witness ==
    /\ pc = "done" /\ op = "adopt" /\ path = SubDir /\ result = "err_is_dir"
    /\ fs \in InitialFilesystems

\* C3 as stated: adopt called on a symlink fails with the "is a symlink"
\* error whatever the link points to.
C3_SymlinkErrorAlways ==
    (pc = "done" /\ op = "adopt" /\ loaded.ok /\ SymlinkAt(fs, path))
    => result = "err_is_symlink"

\* C3 amended: adopt called on a symlink fails without touching the
\* filesystem; the error is "is a symlink" when the link points to a regular
\* file or to nothing, and "is a directory" when it points to a directory.
C3_SymlinkRejected ==
    [][(AdoptCalled /\ SymlinkAt(fs, path'))
         => /\ fs' = fs
            /\ pc' = "done"
            /\ result' = (IF DirectoryAt(fs, path') THEN "err_is_dir"
                          ELSE "err_is_symlink")]_vars

C3_Witness ==
    /\ pc = "done" /\ op = "adopt" /\ path = LinkToDir /\ result = "err_is_dir"
    /\ SymlinkAt(fs, path)

\* C4 as stated: adopt called on a regular file that is not under the home
\* directory changes nothing in the filesystem and returns success.
C4_OutsideHomeNoop ==
    [][(op' = "adopt" /\ loaded'.ok /\ path'.abs /\ ~UnderHome(path')
          /\ RegularAt(fs, path'))
         => (fs' = fs /\ (pc' = "done" => result' = "ok"))]_vars

\* the content of every regular file of the initial filesystem is at its
\* original location or at the destination adopt computes for it
ContentKept ==
    \A k \in DOMAIN InitialData :
        \/ k \in DOMAIN fs /\ fs[k] = File(InitialData[k])
        \/ \E root \in SecretRoots :
             LET dst == Key(copy_target(root, diff_paths(AbsPath(k), Home).val))
             IN  dst \in DOMAIN fs /\ fs[dst] = File(InitialData[k])

\* the steps of adopt follow each other in the order create_dir_all, copy,
\* remove_file; a failed step ends the call with the error; the original
\* disappears only in the remove_file step, which is reached only with the
\* complete copy at the destination
StepOrder ==
    /\ pc = "create_dir_all"
         => /\ pc' \in {"copy", "done"}
            /\ pc' = "done" => result' = "err_io"
            /\ \A k \in DOMAIN fs : k \in DOMAIN fs' /\ fs'[k] = fs[k]
            /\ \A k \in DOMAIN fs' \ DOMAIN fs : fs'[k] = Dir
    /\ pc = "copy"
         => /\ pc' \in {"remove_file", "done"}
            /\ pc' = "done" => result' = "err_io"
            /\ pc' = "remove_file"
                 => /\ Key(copy_target(loaded.cfg.secretz, relpath)) \in DOMAIN fs'
                    /\ fs'[Key(copy_target(loaded.cfg.secretz, relpath))] = fs[Key(path)]
            /\ Key(path) \in DOMAIN fs' /\ fs'[Key(path)] = fs[Key(path)]
    /\ pc = "remove_file"
         => /\ pc' = "done"
            /\ result' \in {"ok", "err_io"}
            /\ result' = "err_io" => fs' = fs
    /\ \A k \in DOMAIN InitialData :
         (k \in DOMAIN fs /\ k \notin DOMAIN fs')
           => /\ pc = "remove_file" /\ k = Key(path)
              /\ Key(copy_target(loaded.cfg.secretz, relpath)) \in DOMAIN fs
              /\ fs[Key(copy_target(loaded.cfg.secretz, relpath))] = File(InitialData[k])

\* C9: adopt mutates in the order create directories, copy, delete; a failed
\* step aborts the later ones and is returned; in every state the file's
\* content is at the original location or at the destination, and the
\* original is deleted only after a successful copy.
C9_CopyBeforeDelete == []ContentKept /\ [][StepOrder]_vars

C9_Witness ==
    /\ pc = "done" /\ op = "adopt" /\ result = "err_io" /\ path = SecretFile
    /\ fs[Key(SecretFile)] = File(FileData("secret"))
    /\ (LoadedPack \o RelToHome(path)) \in DOMAIN fs
    /\ fs[LoadedPack \o RelToHome(path)] = File(FileData("secret"))

\* C10 as stated: adopt called on a regular file directly in the home
\* directory changes nothing in the filesystem and returns success.
C10_TopLevelNoop ==
    [][(op' = "adopt" /\ loaded'.ok /\ homeAvail /\ UnderHome(path')
          /\ Len(RelToHome(path')) = 1 /\ RegularAt(fs, path'))
         => (fs' = fs /\ (pc' = "done" => result' = "ok"))]_vars

\* C10 amended: a regular file directly in the home directory is adopted
\* like any other: a call that returns Ok has put its bytes at
\* <secrets root>/<username>/pack/<file name> and has deleted the original.
C10_TopLevelAdopted ==
    (pc = "done" /\ op = "adopt" /\ result = "ok" /\ homeAvail
        /\ UnderHome(path) /\ Len(RelToHome(path)) = 1)
    => /\ (LoadedPack \o RelToHome(path)) \in DOMAIN fs
       /\ fs[LoadedPack \o RelToHome(path)] = File(InitialData[Key(path)])
       /\ Key(path) \notin DOMAIN fs

C10_Witness ==
    /\ pc = "done" /\ op = "adopt" /\ result = "ok" /\ homeAvail
    /\ path = TopFile
    /\ Key(TopFile) \notin DOMAIN fs
    /\ <<"mnt", "secretz", "u", "pack", "top.txt">> \in DOMAIN fs
    /\ fs[<<"mnt", "secretz", "u", "pack", "top.txt">>] = File(FileData("top"))

(***************************************************************************)
(* Properties of the configuration and of the command line, checked under  *)
(* SpecBackup.                                                             *)
(***************************************************************************)
\* the configuration `config init` writes
InitConfig(remote) ==
    MkConfig(AbsPath(<<"mnt", "secretz">>), <<"target">>,
             <<"/mnt/codez", "/mnt/secretz">>,
             IF remote
             THEN [type |-> "s3", bucket |-> "my_bucket",
                   endpoint |-> Some("https://my-s3-endpoint.net"),
                   access_key_id |-> "access_key_id",
                   secret_access_key |-> "secret_access_key",
                   region |-> "us-east-1"]
             ELSE [type |-> "local", path |-> AbsPath(<<"mnt", "backupz", "wk">>)])

\* C5: config init on an existing document without --force fails and leaves
\* the document as it was; with --force, a run that succeeds leaves the
\* default configuration in the document, with the S3 sample repository
\* under --remote.
C5_InitForce ==
    [][(pc = "idle" /\ op' = "config_init")
         => /\ (docs["default"].exists /\ ~force')
                 => (result' = "err_exists" /\ docs' = docs)
            /\ (force' /\ result' = "ok")
                 => /\ docs'["default"] = Present(to_string(InitConfig(remote_storage')))
                    /\ docs'["alt"] = docs["alt"]]_vars

C5_Witness ==
    /\ pc = "done" /\ op = "config_init" /\ ~force /\ result = "err_exists"
    /\ docs["default"] = Present(Garbage)

DocumentConfig ==
    IF docs["default"].exists THEN docs["default"].text.cfg ELSE InitConfig(FALSE)

\* C7: backup run invokes restic with the verb backup, then one
\* --exclude=<pattern> per exclude in declared order, then every target in
\* declared order, and nothing else.
C7_ExcludesThenTargets ==
    (pc = "done" /\ op = "backup_run" /\ result # "err_config")
    => LET ex == DocumentConfig.backup.excludes
           tg == DocumentConfig.backup.targets
           a  == invocation.args
       IN  /\ invocation.some
           /\ invocation.program = "restic"
           /\ Len(a) = 1 + Len(ex) + Len(tg)
           /\ a[1] = "backup"
           /\ \A i \in 1..Len(ex) : a[1 + i] = "--exclude=" \o ex[i]
           /\ \A j \in 1..Len(tg) : a[1 + Len(ex) + j] = tg[j]

C7_Witness ==
    /\ pc = "done" /\ op = "backup_run" /\ result = "ok"
    /\ DocumentConfig.backup.excludes = <<"*.o", "target">>
    /\ DocumentConfig.backup.targets = <<"/mnt/secretz", "/mnt/codez">>
    /\ invocation.args
         = <<"backup", "--exclude=*.o", "--exclude=target", "/mnt/secretz", "/mnt/codez">>

\* C8: the repository address handed to restic is "s3:" + E + "/" + bucket
\* for an S3 backend, E the configured endpoint or "s3.amazonaws.com" when
\* there is none, and the path's string form for a local backend.
C8_RepositoryAddress ==
    (pc = "done" /\ invocation.some)
    => LET r == loaded.cfg.backup.repository
           address == invocation.env["RESTIC_REPOSITORY"]
       IN  IF r.type = "s3"
           THEN address = "s3:" \o (IF r.endpoint.some THEN r.endpoint.val
                                    ELSE "s3.amazonaws.com") \o "/" \o r.bucket
           ELSE /\ address = display(r.path)
                /\ r.path = AbsPath(<<"mnt", "backupz", "wk">>) => address = "/mnt/backupz/wk"
                /\ r.path = RelPath(<<"backupz">>) => address = "backupz"

C8_Witness ==
    /\ pc = "done" /\ invocation.some
    /\ loaded.cfg.backup.repository.type = "s3"
    /\ ~loaded.cfg.backup.repository.endpoint.some
    /\ invocation.env["RESTIC_REPOSITORY"] = "s3:s3.amazonaws.com/foo"

====
